---------------------------- MODULE Spec2Model ----------------------------
(***************************************************************************)
(* A model of pkgsense: the analysis orchestrator (AnalysisManager) and    *)
(* the registry client (fetchPackageMetadata) with the cache and the       *)
(* token-bucket rate limiter it composes.                                  *)
(*                                                                         *)
(* JavaScript runs one synchronous segment at a time: the code between two *)
(* awaits is atomic, so every action below is one such segment.            *)
(***************************************************************************)
EXTENDS Integers, Sequences, FiniteSets, TLC

(***************************************************************************)
(* Bounds of the model.                                                    *)
(***************************************************************************)
MaxAnalyzers == 3
MaxFindings == 2
MaxAdvances == 4
\* the instances under check are built small: new Cache({ttl, max}) and
\* new RateLimiter({requestsPerMinute}) take these as constructor options
CacheMax == 1
MaxKvCapacity == 2
MaxKvClock == 3
MaxRlCapacity == 2
MaxRlHalfMinutes == 2
MaxVer == 2
MaxEdits == 2
MaxRuns == 3
MaxBatch == 2
MaxNtClears == 1
RequestsPerMinute == 1

(***************************************************************************)
(* Constants of the program.                                               *)
(***************************************************************************)
CacheTtl == 3600000
FETCH_TIMEOUT_MS == 5000
MAX_RETRIES == 3
RETRY_DELAY_MS == 1000
MsPerMinute == 60000
PollMs == 100

FindingIds == {"f1", "f2"}

VARIABLES
    \* ---- AnalysisManager (src/src/analyzers/manager.ts) ----
    nAnalyzers,   \* this.analyzers.length, fixed by the constructor
    docKind,      \* the document handed to analyzeDocument
    adPc,         \* analyzeDocument: "idle" | "running" | "done"
    adResult,     \* what analyzeDocument's promise settled with
    runPc,        \* runAnalyzers: "idle" | "awaiting" | "returned" | "rejected"
    started,      \* per analyzer: times analyze() was invoked in this run
    astate,       \* per analyzer: "notStarted" | "pending" | "settled"
    outcome,      \* per analyzer: what its promise settled with
    findings,     \* the list runAnalyzers returned
    diagnostics,  \* what DiagnosticsManager holds for the document
    lastFirst,    \* the promises have settled from the last analyzer down
    \* ---- registry client, cache, rate limiter ----
    now,          \* Date.now(), in ms
    advances,     \* how often the clock has moved
    cache,        \* npmRegistryCache's Map, in insertion order
    lim,          \* npmRegistryRateLimiter: tokens, lastRefill, queue
    timers,       \* per call: when its setInterval callback is next due
    call,         \* per fetchPackageMetadata call: where it stands
    slots,        \* the callers there are
    traced,       \* the callers whose attempts are recorded one by one
    \* ---- a Cache instance of its own (src/src/utils/cache.ts) ----
    kv,           \* this.cache, the Map in insertion order
    kvOpts,       \* the constructor's options: ttl and max
    kvNow,        \* Date.now()
    kvRet,        \* the last call on the instance and what it returned
    kvBorn,       \* per key: when it was last set, if still held since
    kvOrder,      \* the keys held, in the order they came in
    kvRun,        \* the calls so far, while all were sets of distinct keys
    \* ---- a RateLimiter instance of its own (src/unnamed/part_021) ----
    rl,           \* tokens, lastRefill, queue
    rlCap,        \* options.requestsPerMinute
    rlNow,        \* Date.now()
    rlTimers,     \* per caller: when its setInterval callback is next due
    rc,           \* per caller of acquire(): "idle" | "waiting" | "admitted"
    rlLog,        \* the admissions so far, in order: who, when, which way
    rlArrived,    \* the callers of acquire() so far, in order
    rlRet,        \* what the last availableTokens() returned
    rlRun,        \* "burst": only acquire() so far, all at the start;
                  \* "reset": reset() was called; "mixed": anything else
    \* ---- getUpdateType (src/src/utils/semverHelper.ts) ----
    svCur,        \* the argument currentVersion
    svLat,        \* the argument latestVersion
    svRet,        \* "pending", or what getUpdateType returned
    \* ---- the extension's event handlers (src/src/extension.ts) ----
    exText,       \* the open package.json: version of its text, validity
    exRuns,       \* the analyses started so far, in the order they started
    exPublished,  \* what the DiagnosticsManager holds for the document
    exReanalyzing,\* isReanalyzing
    exCfgPc,      \* the configuration listener: "idle" | "awaiting"
    exBurst,      \* analyses started by change events since the last pause
    \* ---- NotificationManager (src/src/decorators/notifications.ts) ----
    ntNotified,   \* this.notifiedVulnerabilities
    ntShown,      \* per finding: showErrorMessage calls since the last clear
    ntOffered,    \* the critical findings handed in since the last clear
    ntClears      \* calls of clearNotificationHistory so far

orchVars == <<nAnalyzers, docKind, adPc, adResult, runPc, started, astate,
              outcome, findings, diagnostics, lastFirst>>

regVars == <<now, advances, cache, lim, timers, call, slots, traced>>

kvVars == <<kv, kvOpts, kvNow, kvRet, kvBorn, kvOrder, kvRun>>

rlVars == <<rl, rlCap, rlNow, rlTimers, rc, rlLog, rlArrived, rlRet, rlRun>>

svVars == <<svCur, svLat, svRet>>

exVars == <<exText, exRuns, exPublished, exReanalyzing, exCfgPc, exBurst>>

ntVars == <<ntNotified, ntShown, ntOffered, ntClears>>

uiVars == <<exVars, ntVars>>

libVars == <<kvVars, rlVars, svVars, uiVars>>

vars == <<orchVars, regVars, libVars>>

-----------------------------------------------------------------------------
(***************************************************************************)
(* Sequences of bounded length over a set.                                 *)
(***************************************************************************)
SeqsUpTo(S, n) == UNION {[1..k -> S] : k \in 0..n}

RECURSIVE SumOver(_, _)
SumOver(f, S) ==
    IF S = {} THEN 0
    ELSE LET x == CHOOSE y \in S : TRUE
         IN  f[x] + SumOver(f, S \ {x})

CountIn(s, x) == Cardinality({k \in 1..Len(s) : s[k] = x})

-----------------------------------------------------------------------------
(***************************************************************************)
(* Analyzer outcomes.  analyze() returns Promise<Result<Finding[], E>>:    *)
(* the promise fulfils with success(list) or failure(error), or rejects.   *)
(* A non-async analyze() may also throw at the call itself.                *)
(***************************************************************************)
NoOutcome == [status |-> "none"]
Fulfilled(ok, data) == [status |-> "fulfilled", success |-> ok, data |-> data]
Rejected == [status |-> "rejected"]

SettleOutcomes ==
    {Fulfilled(TRUE, l) : l \in SeqsUpTo(FindingIds, MaxFindings)}
        \cup {Fulfilled(FALSE, <<>>), Rejected}

AnalyzerIds == 1..MaxAnalyzers
Registered == 1..nAnalyzers

DocKinds == {"invalidJson", "invalidStructure", "valid"}

ErrorFinding == "invalid-package-json"

(***************************************************************************)
(* The collecting loop of runAnalyzers over the allSettled results.        *)
(***************************************************************************)
RECURSIVE CollectFrom(_, _, _)
CollectFrom(results, i, n) ==
    IF i > n THEN <<>>
    ELSE IF results[i].status = "fulfilled" /\ results[i].success
         THEN results[i].data \o CollectFrom(results, i + 1, n)
         ELSE CollectFrom(results, i + 1, n)

\* A loop that gives up at the first analyzer that did not succeed.
RECURSIVE CollectUntilFailure(_, _, _)
CollectUntilFailure(results, i, n) ==
    IF i > n THEN <<>>
    ELSE IF results[i].status = "fulfilled" /\ results[i].success
         THEN results[i].data \o CollectUntilFailure(results, i + 1, n)
         ELSE <<>>

CollectFindings_UntilFailure(results, n) == CollectUntilFailure(results, 1, n)

\* A loop that walks the results from the last analyzer to the first.
RECURSIVE CollectDownFrom(_, _)
CollectDownFrom(results, i) ==
    IF i < 1 THEN <<>>
    ELSE IF results[i].status = "fulfilled" /\ results[i].success
         THEN results[i].data \o CollectDownFrom(results, i - 1)
         ELSE CollectDownFrom(results, i - 1)

CollectFindings_LastFirst(results, n) == CollectDownFrom(results, n)

CollectFindings(results, n) == CollectFrom(results, 1, n)

(***************************************************************************)
(* this.analyzers.map(a => a.analyze(context)): the calls are made in      *)
(* registration order in one synchronous segment.  An exception raised by  *)
(* a call leaves map at once: the analyzers after it are never invoked.    *)
(***************************************************************************)
FirstThrower(throwers) ==
    IF throwers = {} THEN 0
    ELSE CHOOSE i \in throwers : \A j \in throwers : i <= j

InvokedBy(throwers) ==
    IF throwers = {} THEN Registered
    ELSE {i \in Registered : i < FirstThrower(throwers)}

-----------------------------------------------------------------------------
InitOrch ==
    /\ nAnalyzers \in 0..MaxAnalyzers
    /\ docKind = "valid"
    /\ adPc = "idle"
    /\ adResult = "none"
    /\ runPc = "idle"
    /\ started = [i \in AnalyzerIds |-> 0]
    /\ astate = [i \in AnalyzerIds |-> "notStarted"]
    /\ outcome = [i \in AnalyzerIds |-> NoOutcome]
    /\ findings = <<>>
    \* what an earlier analysis of the document left published
    /\ diagnostics \in {<<>>, <<"f1">>}
    /\ lastFirst = TRUE

(***************************************************************************)
(* analyzeDocument up to its first await: parse, validate, build the       *)
(* context and enter runAnalyzers, whose map invokes the analyzers.        *)
(***************************************************************************)
AnalyzeInvalid(kind) ==
    /\ adPc = "idle"
    /\ kind \in {"invalidJson", "invalidStructure"}
    /\ docKind' = kind
    /\ diagnostics' = <<ErrorFinding>>
    /\ adPc' = "done"
    /\ adResult' = IF kind = "invalidJson" THEN "JSON_PARSE_ERROR"
                   ELSE "INVALID_PACKAGE_JSON"
    /\ UNCHANGED <<nAnalyzers, runPc, started, astate, outcome, findings,
                   lastFirst>>
    /\ UNCHANGED <<regVars, libVars>>

AnalyzeValid(throwers) ==
    /\ adPc = "idle"
    /\ throwers \subseteq Registered
    /\ docKind' = "valid"
    /\ started' = [i \in AnalyzerIds |->
                     IF i \in InvokedBy(throwers) \/ i = FirstThrower(throwers)
                     THEN started[i] + 1 ELSE started[i]]
    /\ astate' = [i \in AnalyzerIds |->
                     IF i \in InvokedBy(throwers) THEN "pending" ELSE astate[i]]
    /\ IF throwers = {}
       THEN /\ runPc' = "awaiting"
            /\ adPc' = "running"
            /\ adResult' = "none"
       ELSE \* the exception leaves runAnalyzers and analyzeDocument
            /\ runPc' = "rejected"
            /\ adPc' = "done"
            /\ adResult' = "rejected"
    /\ UNCHANGED <<nAnalyzers, outcome, findings, diagnostics, lastFirst>>
    /\ UNCHANGED <<regVars, libVars>>

(***************************************************************************)
(* An invoked analyzer's promise settles.                                  *)
(***************************************************************************)
Settle(i, o) ==
    /\ i \in Registered
    /\ astate[i] = "pending"
    /\ o \in SettleOutcomes
    /\ astate' = [astate EXCEPT ![i] = "settled"]
    /\ outcome' = [outcome EXCEPT ![i] = o]
    /\ lastFirst' = /\ lastFirst
                    /\ \A j \in Registered :
                          astate[j] = IF j > i THEN "settled" ELSE "pending"
    /\ UNCHANGED <<nAnalyzers, docKind, adPc, adResult, runPc, started,
                   findings, diagnostics>>
    /\ UNCHANGED <<regVars, libVars>>

(***************************************************************************)
(* Promise.allSettled resolves once every promise has settled; the loop    *)
(* collects, runAnalyzers returns, analyzeDocument publishes and returns.  *)
(***************************************************************************)
Join ==
    /\ runPc = "awaiting"
    /\ \A i \in Registered : astate[i] = "settled"
    /\ findings' = CollectFindings(outcome, nAnalyzers)
    /\ runPc' = "returned"
    /\ diagnostics' = findings'
    /\ adPc' = "done"
    /\ adResult' = "success"
    /\ UNCHANGED <<nAnalyzers, docKind, started, astate, outcome, lastFirst>>
    /\ UNCHANGED <<regVars, libVars>>

NextOrch ==
    \/ \E kind \in DocKinds : AnalyzeInvalid(kind)
    \/ \E throwers \in SUBSET AnalyzerIds : AnalyzeValid(throwers)
    \/ \E i \in AnalyzerIds, o \in SettleOutcomes : Settle(i, o)
    \/ Join

-----------------------------------------------------------------------------
(***************************************************************************)
(* The registry client: fetchPackageMetadata over the shared cache and     *)
(* rate limiter.                                                           *)
(***************************************************************************)
Calls == {"c1", "c2"}

Min(a, b) == IF a <= b THEN a ELSE b

\* ---- the argument, a JavaScript value ----
Str(s) == [t |-> "string", s |-> s]
Other(truthy) == [t |-> "other", s |-> <<>>, truthy |-> truthy]
NoArg == [t |-> "none"]

\* "", " ", "a", " a ", "b", a truthy non-string (5, {}) and a falsy one
\* (0, null, undefined)
NameInputs ==
    {Str(<<>>), Str(<<" ">>), Str(<<"a">>), Str(<<" ", "a", " ">>),
     Str(<<"b">>), Other(TRUE), Other(FALSE)}

\* !packageName
Falsy(v) == IF v.t = "string" THEN Len(v.s) = 0 ELSE ~v.truthy

\* String.prototype.trim
RECURSIVE TrimLeft(_)
TrimLeft(s) ==
    IF s # <<>> /\ Head(s) = " " THEN TrimLeft(Tail(s)) ELSE s

RECURSIVE TrimRight(_)
TrimRight(s) ==
    IF s # <<>> /\ s[Len(s)] = " "
    THEN TrimRight(SubSeq(s, 1, Len(s) - 1)) ELSE s

Trim(s) == TrimRight(TrimLeft(s))

\* only the first guard: a blank name is let through
NameRejected_Untrimmed(v) == Falsy(v) \/ v.t # "string"

\* The two guards at the head of fetchPackageMetadata.
NameRejected(v) ==
    \/ Falsy(v)
    \/ v.t # "string"
    \/ Len(Trim(v.s)) = 0

CacheKey(trimmedName) == <<"metadata:">> \o trimmedName

\* ---- what the network gives back ----
Undefined == [t |-> "undefined"]
Body(hasName, hasVersions, hasDistTags) ==
    [t |-> "object", name |-> hasName, versions |-> hasVersions,
     distTags |-> hasDistTags]
NullBody == [t |-> "null"]

Bodies == {Body(a, b, c) : a \in BOOLEAN, b \in BOOLEAN, c \in BOOLEAN}
              \cup {NullBody}

IsNpmPackageMetadata(data) ==
    /\ data.t = "object"
    /\ data.name
    /\ data.versions
    /\ data.distTags

Responses ==
    {[kind |-> "ok", body |-> b] : b \in Bodies}
        \cup {[kind |-> "status", code |-> c] : c \in {404, 429, 500}}
        \cup {[kind |-> "throw", err |-> e] :
                 e \in {"AbortError", "Error", "nonError"}}

\* ---- Cache (src/src/utils/cache.ts) ----
CacheIndex(m, key) ==
    IF \E k \in 1..Len(m) : m[k].key = key
    THEN CHOOSE k \in 1..Len(m) : m[k].key = key
    ELSE 0

RemoveAt(m, k) == SubSeq(m, 1, k - 1) \o SubSeq(m, k + 1, Len(m))

\* an entry taken for expired at its expiry instant already
Expired_AtExpiry(entry, t) == t >= entry.expiry

\* an entry that never expires
Expired_Never(entry, t) == FALSE

\* Date.now() > entry.expiry
Expired(entry, t) == t > entry.expiry

\* get(key): the value, and the map after the lazy delete of an expired entry
CacheGet(m, key, t) ==
    LET k == CacheIndex(m, key)
    IN  IF k = 0 THEN [value |-> Undefined, map |-> m]
        ELSE IF Expired(m[k], t)
             THEN [value |-> Undefined, map |-> RemoveAt(m, k)]
             ELSE [value |-> m[k].value, map |-> m]

\* has(key): the answer, and the map after the lazy delete
CacheHas(m, key, t) ==
    LET k == CacheIndex(m, key)
    IN  IF k = 0 THEN [found |-> FALSE, map |-> m]
        ELSE IF Expired(m[k], t)
             THEN [found |-> FALSE, map |-> RemoveAt(m, k)]
             ELSE [found |-> TRUE, map |-> m]

\* a set that makes room by dropping the newest entry
CacheSetWith_EvictNewest(max, ttl, m, key, value, t) ==
    LET evicted == IF Len(m) >= max /\ CacheIndex(m, key) = 0 /\ m # <<>>
                   THEN SubSeq(m, 1, Len(m) - 1) ELSE m
        entry == [key |-> key, value |-> value, expiry |-> t + ttl]
        k == CacheIndex(evicted, key)
    IN  IF k = 0 THEN Append(evicted, entry)
        ELSE [evicted EXCEPT ![k] = entry]

\* a set that re-inserts a stored key: delete, then set
CacheSetWith_Reinsert(max, ttl, m, key, value, t) ==
    LET evicted == IF Len(m) >= max /\ CacheIndex(m, key) = 0 /\ m # <<>>
                   THEN Tail(m) ELSE m
        entry == [key |-> key, value |-> value, expiry |-> t + ttl]
        k == CacheIndex(evicted, key)
    IN  IF k = 0 THEN Append(evicted, entry)
        ELSE Append(RemoveAt(evicted, k), entry)

\* set(key, value) of an instance constructed with { ttl, max }.  A Map
\* keeps a key that is set again at the place where it first came in.
CacheSetWith(max, ttl, m, key, value, t) ==
    LET evicted == IF Len(m) >= max /\ CacheIndex(m, key) = 0 /\ m # <<>>
                   THEN Tail(m) ELSE m
        entry == [key |-> key, value |-> value, expiry |-> t + ttl]
        k == CacheIndex(evicted, key)
    IN  IF k = 0 THEN Append(evicted, entry)
        ELSE [evicted EXCEPT ![k] = entry]

\* set(key, value) of npmRegistryCache
CacheSet(m, key, value, t) == CacheSetWith(CacheMax, CacheTtl, m, key, value, t)

\* delete(key), clear(), size()
CacheDelete(m, key) ==
    IF CacheIndex(m, key) = 0 THEN m ELSE RemoveAt(m, CacheIndex(m, key))

CacheClear(m) == <<>>

CacheSize(m) == Len(m)

\* ---- RateLimiter (src/unnamed/part_021) ----
\* tokens are counted in units of 1/MsPerMinute of a permit, so that the
\* continuous refill of requestsPerMinute / 60000 per ms stays exact.
OneToken == MsPerMinute
Capacity == RequestsPerMinute * OneToken

\* a fixed window instead of a continuous refill: full again once time
\* has passed
RefillWith_Window(rpm, l, t) ==
    [l EXCEPT !.tokens = IF t > l.lastRefill THEN rpm * OneToken ELSE l.tokens,
              !.lastRefill = t]

\* refill() of an instance constructed with { requestsPerMinute: rpm }
RefillWith(rpm, l, t) ==
    [l EXCEPT !.tokens = Min(rpm * OneToken,
                             l.tokens + (t - l.lastRefill) * rpm),
              !.lastRefill = t]

\* refill() of npmRegistryRateLimiter
Refill(l, t) == RefillWith(RequestsPerMinute, l, t)

\* a release on any part of a permit: tokens > 0
RECURSIVE ProcessQueue_OnPartialPermit(_)
ProcessQueue_OnPartialPermit(l) ==
    IF l.queue # <<>> /\ l.tokens > 0
    THEN ProcessQueue_OnPartialPermit(
             [l EXCEPT !.tokens = l.tokens - OneToken, !.queue = Tail(l.queue)])
    ELSE l

\* a release from the back of the queue: pop() for shift()
RECURSIVE ProcessQueue_NewestFirst(_)
ProcessQueue_NewestFirst(l) ==
    IF l.queue # <<>> /\ l.tokens >= OneToken
    THEN ProcessQueue_NewestFirst(
             [l EXCEPT !.tokens = l.tokens - OneToken,
                       !.queue = SubSeq(l.queue, 1, Len(l.queue) - 1)])
    ELSE l

RECURSIVE ProcessQueue(_)
ProcessQueue(l) ==
    IF l.queue # <<>> /\ l.tokens >= OneToken
    THEN ProcessQueue([l EXCEPT !.tokens = l.tokens - OneToken,
                                !.queue = Tail(l.queue)])
    ELSE l

InQueue(l, c) == \E k \in 1..Len(l.queue) : l.queue[k] = c

\* a timer: not set, come due, or due at a later instant
NoTimer == -1
Elapsed == 0
TimerAt(due, t) == IF due = NoTimer \/ due <= t THEN Min(due, Elapsed) ELSE due

\* ---- a call ----
IdleCall ==
    [pc |-> "idle", arg |-> NoArg, name |-> <<>>, attempt |-> 0,
     due |-> NoTimer,
     result |-> "none",
     \* history: what this call has done so far
     nFetch |-> 0, permits |-> 0, lookup |-> "none", stored |-> FALSE,
     purged |-> FALSE,
     \* how each attempt ended, for a call of a traced slot
     hist |-> <<>>]

Done(c, result) ==
    [c EXCEPT !.pc = "done", !.result = result, !.due = NoTimer]

\* exponential backoff: delay(ms, attempt)
Backoff(ms, attempt) == ms * 2 ^ attempt

\* issue the fetch of one attempt
Fetching(c, attempt, t) ==
    [c EXCEPT !.pc = "fetching", !.attempt = attempt,
              !.due = t + FETCH_TIMEOUT_MS, !.nFetch = c.nFetch + 1]

Sleeping(c, ms, t) ==
    [c EXCEPT !.pc = "sleeping", !.due = t + Backoff(ms, c.attempt)]

InitReg ==
    /\ now = 0
    /\ advances = 0
    /\ cache = <<>>
    /\ lim = [tokens |-> Capacity, lastRefill |-> 0, queue |-> <<>>]
    /\ timers = [c \in Calls |-> NoTimer]
    /\ call = [c \in Calls |-> IdleCall]
    /\ slots = Calls
    /\ traced = {}

(***************************************************************************)
(* fetchPackageMetadata up to its first await: the guards, the cache       *)
(* lookup and the synchronous part of acquire().                           *)
(***************************************************************************)
Invoke(c, v) ==
    /\ c \in slots
    /\ call[c].pc = "idle"
    /\ v \in NameInputs
    /\ IF NameRejected(v)
       THEN /\ call' = [call EXCEPT ![c] = Done([@ EXCEPT !.arg = v], "invalid")]
            /\ UNCHANGED <<cache, lim, timers>>
       ELSE LET name == Trim(v.s)
                got == CacheGet(cache, CacheKey(name), now)
                me == [call[c] EXCEPT !.arg = v, !.name = name,
                                      !.purged = (got.map # cache)]
                l == Refill(lim, now)
            IN  /\ cache' = got.map
                /\ IF got.value # Undefined /\ IsNpmPackageMetadata(got.value)
                   THEN /\ call' = [call EXCEPT ![c] =
                                       Done([me EXCEPT !.lookup = "hit"], "success")]
                        /\ UNCHANGED <<lim, timers>>
                   ELSE IF l.tokens >= OneToken
                   THEN /\ lim' = [l EXCEPT !.tokens = l.tokens - OneToken]
                        /\ call' = [call EXCEPT ![c] =
                                       [me EXCEPT !.lookup = "miss",
                                                  !.pc = "acquired",
                                                  !.permits = 1]]
                        /\ UNCHANGED timers
                   ELSE /\ lim' = [l EXCEPT !.queue = Append(l.queue, c)]
                        /\ timers' = [timers EXCEPT ![c] = now + PollMs]
                        /\ call' = [call EXCEPT ![c] =
                                       [me EXCEPT !.lookup = "miss",
                                                  !.pc = "waiting"]]
    /\ UNCHANGED <<now, advances, slots, traced>>
    /\ UNCHANGED <<orchVars, libVars>>

(***************************************************************************)
(* The setInterval callback of a queued acquire(): refill, processQueue,   *)
(* and clearInterval once the caller's own resolve has left the queue.     *)
(***************************************************************************)
Poll(c) ==
    /\ timers[c] = Elapsed
    /\ LET l == ProcessQueue(Refill(lim, now))
           released == {d \in Calls : InQueue(lim, d) /\ ~InQueue(l, d)}
       IN  /\ lim' = l
           /\ call' = [d \in Calls |->
                          IF d \in released
                          THEN [call[d] EXCEPT !.pc = "acquired", !.permits = 1]
                          ELSE call[d]]
           /\ timers' = [timers EXCEPT ![c] =
                            IF InQueue(l, c) THEN now + PollMs ELSE NoTimer]
    /\ UNCHANGED <<now, advances, cache, slots, traced>>
    /\ UNCHANGED <<orchVars, libVars>>

(***************************************************************************)
(* After await acquire(): the loop starts and issues the first fetch.      *)
(***************************************************************************)
FirstAttempt(c) ==
    /\ call[c].pc = "acquired"
    /\ call' = [call EXCEPT ![c] = Fetching(@, 0, now)]
    /\ UNCHANGED <<now, advances, cache, lim, timers, slots, traced>>
    /\ UNCHANGED <<orchVars, libVars>>

(***************************************************************************)
(* The fetch of one attempt concludes with response or exception r.        *)
(***************************************************************************)
ResponseLabel(r) ==
    CASE r.kind = "status" /\ r.code = 404 -> "404"
      [] r.kind = "status" /\ r.code = 429 -> "429"
      [] r.kind = "status" /\ r.code \notin {404, 429} -> "http"
      [] r.kind = "ok" /\ IsNpmPackageMetadata(r.body) -> "ok"
      [] r.kind = "ok" /\ ~IsNpmPackageMetadata(r.body) -> "malformed"
      [] r.kind = "throw" -> r.err

\* if (attempt < MAX_RETRIES - 1) { await delay(RETRY_DELAY_MS, attempt);
\* continue; } return failure(...)
RetryOrFail(c, result, t) ==
    IF c.attempt < MAX_RETRIES - 1
    THEN Sleeping(c, RETRY_DELAY_MS, t)
    ELSE Done(c, result)

\* a 404 handled like any other status
OnNotFound_Retried(c, t) == RetryOrFail(c, "http", t)

OnNotFound(c, t) == Done(c, "notFound")

OnRateLimited(c, t) == Sleeping(c, RETRY_DELAY_MS * 2, t)

OnHttpError(c, t) == RetryOrFail(c, "http", t)

OnMalformed(c, t) == Done(c, "malformed")

OnMetadata(c, t) == Done([c EXCEPT !.stored = TRUE], "success")

OnThrow(c, err, t) ==
    CASE err = "AbortError" -> RetryOrFail(c, "timeout", t)
      [] err = "Error" -> RetryOrFail(c, "network", t)
      [] OTHER -> Done(c, "unknown")

\* the response is stored before its shape is looked at
CacheAfter_Unvalidated(m, key, r, t) ==
    IF r.kind = "ok" THEN CacheSet(m, key, r.body, t) ELSE m

\* npmRegistryCache.set(cacheKey, json) is reached by a validated body only
CacheAfter(m, key, r, t) ==
    IF r.kind = "ok" /\ IsNpmPackageMetadata(r.body)
    THEN CacheSet(m, key, r.body, t)
    ELSE m

Respond(c, r) ==
    /\ call[c].pc = "fetching"
    /\ r \in Responses
    \* the abort timer fires FETCH_TIMEOUT_MS after the fetch was issued:
    \* from then on the fetch ends in an AbortError, and not before
    /\ (r.kind = "throw" /\ r.err = "AbortError") <=> call[c].due = Elapsed
    /\ LET me == IF c \in traced
                 THEN [call[c] EXCEPT !.hist = Append(@, ResponseLabel(r))]
                 ELSE call[c]
       IN  /\ cache' = CacheAfter(cache, CacheKey(me.name), r, now)
           /\ call' = [call EXCEPT ![c] =
                 CASE ResponseLabel(r) = "404" -> OnNotFound(me, now)
                   [] ResponseLabel(r) = "429" -> OnRateLimited(me, now)
                   [] ResponseLabel(r) = "http" -> OnHttpError(me, now)
                   [] ResponseLabel(r) = "malformed" -> OnMalformed(me, now)
                   [] ResponseLabel(r) = "ok" -> OnMetadata(me, now)
                   [] OTHER -> OnThrow(me, r.err, now)]
    /\ UNCHANGED <<now, advances, lim, timers, slots, traced>>
    /\ UNCHANGED <<orchVars, libVars>>

(***************************************************************************)
(* The backoff timer fires: continue, i.e. attempt++ and the loop test.    *)
(***************************************************************************)
\* a loop that runs once more than MAX_RETRIES
LoopContinues_OneMore(attempt) == attempt <= MAX_RETRIES

\* for (let attempt = 0; attempt < MAX_RETRIES; attempt++)
LoopContinues(attempt) == attempt < MAX_RETRIES

Wake(c) ==
    /\ call[c].pc = "sleeping"
    /\ call[c].due = Elapsed
    /\ LET me == call[c]
       IN  call' = [call EXCEPT ![c] =
                       IF LoopContinues(me.attempt + 1)
                       THEN Fetching(me, me.attempt + 1, now)
                       ELSE Done([me EXCEPT !.attempt = me.attempt + 1],
                                 "exhausted")]
    /\ UNCHANGED <<now, advances, cache, lim, timers, slots, traced>>
    /\ UNCHANGED <<orchVars, libVars>>

(***************************************************************************)
(* The clock moves.                                                        *)
(* The clock is watched at the instants that matter to the client: when a   *)
(* permit has refilled and when a cache entry reaches its expiry.  A timer *)
(* that has come due is kept as Elapsed, whenever that was.                *)
(***************************************************************************)
AdvanceSteps == {MsPerMinute \div RequestsPerMinute, CacheTtl}

Advance(d) ==
    /\ advances < MaxAdvances
    /\ d \in AdvanceSteps
    /\ now' = now + d
    /\ advances' = advances + 1
    /\ timers' = [c \in Calls |-> TimerAt(timers[c], now')]
    /\ call' = [c \in Calls |->
                   IF call[c].pc \in {"fetching", "sleeping"}
                   THEN [call[c] EXCEPT !.due = TimerAt(@, now')]
                   ELSE call[c]]
    /\ UNCHANGED <<cache, lim, slots, traced>>
    /\ UNCHANGED <<orchVars, libVars>>

NextReg ==
    \/ \E c \in Calls, v \in NameInputs : Invoke(c, v)
    \/ \E c \in Calls : Poll(c)
    \/ \E c \in Calls : FirstAttempt(c)
    \/ \E c \in Calls, r \in Responses : Respond(c, r)
    \/ \E c \in Calls : Wake(c)
    \/ \E d \in AdvanceSteps : Advance(d)

-----------------------------------------------------------------------------
(***************************************************************************)
(* A Cache instance on its own: new Cache({ ttl, max }) and the calls on   *)
(* it, each one synchronous.                                               *)
(***************************************************************************)
KvKeys == {1, 2, 3}

\* the ttl option, in ms
KvTtls == {1, 2}

KvValue(n) == [t |-> "value", v |-> n]
KvValues == {KvValue(1), KvValue(2)}

KvNoCall == [op |-> "none", key |-> 0, value |-> Undefined, found |-> FALSE,
             n |-> 0]

KvCall(op, key, value, found, n) ==
    [op |-> op, key |-> key, value |-> value, found |-> found, n |-> n]

NeverSet == [at |-> 0, value |-> Undefined]
SetAt(t, value) == [at |-> t, value |-> value]

KvHeld(m) == {m[k].key : k \in 1..Len(m)}

\* a sequence without the elements outside a set
RECURSIVE Keep(_, _)
Keep(q, S) ==
    IF q = <<>> THEN <<>>
    ELSE IF Head(q) \in S THEN <<Head(q)>> \o Keep(Tail(q), S)
         ELSE Keep(Tail(q), S)

KvRunBroken == [ok |-> FALSE, keys |-> <<>>]

InitKv ==
    /\ kv = <<>>
    /\ kvOpts \in [ttl : KvTtls, max : 1..MaxKvCapacity]
    /\ kvNow = 0
    /\ kvRet = KvNoCall
    /\ kvBorn = [k \in KvKeys |-> NeverSet]
    /\ kvOrder = <<>>
    /\ kvRun = [ok |-> TRUE, keys |-> <<>>]

KvAtRest ==
    /\ kv = <<>>
    /\ kvOpts = [ttl |-> 1, max |-> 1]
    /\ kvNow = 0
    /\ kvRet = KvNoCall
    /\ kvBorn = [k \in KvKeys |-> NeverSet]
    /\ kvOrder = <<>>
    /\ kvRun = KvRunBroken

\* the record of what is held, after a delete or clear made the Map m
KvLedger(m) ==
    /\ kvBorn' = [k \in KvKeys |->
                     IF k \in KvHeld(m) THEN kvBorn[k] ELSE NeverSet]
    /\ kvOrder' = Keep(kvOrder, KvHeld(m))

\* the same after a lookup, whose lazy delete is no delete by the caller
KvLooked(m) ==
    /\ kvBorn' = kvBorn
    /\ kvOrder' = Keep(kvOrder, KvHeld(m))

KvGet(key) ==
    /\ LET got == CacheGet(kv, key, kvNow)
       IN  /\ kv' = got.map
           /\ kvRet' = KvCall("get", key, got.value, got.value # Undefined, 0)
           /\ KvLooked(got.map)
    /\ kvRun' = KvRunBroken
    /\ UNCHANGED <<kvOpts, kvNow>>
    /\ UNCHANGED <<orchVars, regVars, rlVars, svVars, uiVars>>

KvHas(key) ==
    /\ LET got == CacheHas(kv, key, kvNow)
       IN  /\ kv' = got.map
           /\ kvRet' = KvCall("has", key, Undefined, got.found, 0)
           /\ KvLooked(got.map)
    /\ kvRun' = KvRunBroken
    /\ UNCHANGED <<kvOpts, kvNow>>
    /\ UNCHANGED <<orchVars, regVars, rlVars, svVars, uiVars>>

KvSet(key, value) ==
    /\ LET m == CacheSetWith(kvOpts.max, kvOpts.ttl, kv, key, value, kvNow)
           stay == Keep(kvOrder, KvHeld(m))
       IN  /\ kv' = m
           /\ kvBorn' = [k \in KvKeys |->
                            IF k = key THEN SetAt(kvNow, value)
                            ELSE IF k \in KvHeld(m) THEN kvBorn[k]
                            ELSE NeverSet]
           /\ kvOrder' = IF key \in KvHeld(kv) THEN stay
                         ELSE Append(Keep(stay, KvKeys \ {key}), key)
    /\ kvRet' = KvCall("set", key, value, FALSE, 0)
    /\ kvRun' = IF /\ kvRun.ok
                   /\ \A k \in 1..Len(kvRun.keys) : kvRun.keys[k] # key
                   /\ Len(kvRun.keys) <= kvOpts.max
                THEN [kvRun EXCEPT !.keys = Append(@, key)]
                ELSE KvRunBroken
    /\ UNCHANGED <<kvOpts, kvNow>>
    /\ UNCHANGED <<orchVars, regVars, rlVars, svVars, uiVars>>

KvDelete(key) ==
    /\ kv' = CacheDelete(kv, key)
    /\ KvLedger(CacheDelete(kv, key))
    /\ kvRet' = KvCall("delete", 0, Undefined, FALSE, 0)
    /\ kvRun' = KvRunBroken
    /\ UNCHANGED <<kvOpts, kvNow>>
    /\ UNCHANGED <<orchVars, regVars, rlVars, svVars, uiVars>>

KvClear ==
    /\ kv' = CacheClear(kv)
    /\ KvLedger(CacheClear(kv))
    /\ kvRet' = KvCall("clear", 0, Undefined, FALSE, 0)
    /\ kvRun' = KvRunBroken
    /\ UNCHANGED <<kvOpts, kvNow>>
    /\ UNCHANGED <<orchVars, regVars, rlVars, svVars, uiVars>>

KvSize ==
    /\ kvRet' = KvCall("size", 0, Undefined, FALSE, CacheSize(kv))
    /\ UNCHANGED <<kv, kvOpts, kvNow, kvBorn, kvOrder, kvRun>>
    /\ UNCHANGED <<orchVars, regVars, rlVars, svVars, uiVars>>

\* a millisecond passes
KvTick ==
    /\ kvNow < MaxKvClock
    /\ kvNow' = kvNow + 1
    /\ kvRet' = KvNoCall
    /\ UNCHANGED <<kv, kvOpts, kvBorn, kvOrder, kvRun>>
    /\ UNCHANGED <<orchVars, regVars, rlVars, svVars, uiVars>>

NextCache ==
    \/ \E key \in KvKeys : KvGet(key)
    \/ \E key \in KvKeys : KvHas(key)
    \/ \E key \in KvKeys, value \in KvValues : KvSet(key, value)
    \/ \E key \in KvKeys : KvDelete(key)
    \/ KvClear
    \/ KvSize
    \/ KvTick

-----------------------------------------------------------------------------
(***************************************************************************)
(* A RateLimiter instance on its own: new RateLimiter({requestsPerMinute}) *)
(* with callers of acquire(), availableTokens() and reset(), and the       *)
(* setInterval callbacks of the queued callers.                            *)
(***************************************************************************)
Rlers == {"r1", "r2", "r3"}

HalfMinute == MsPerMinute \div 2

\* calls are made at whole half minutes, up to the last one
RlLastCall == MaxRlHalfMinutes * HalfMinute
RlCallInstant(t) == t % HalfMinute = 0 /\ t <= RlLastCall

\* by then the refill has covered every caller there is
RlHorizon == RlLastCall + Cardinality(Rlers) * MsPerMinute + PollMs

SetMin(S) == CHOOSE x \in S : \A y \in S : x <= y

Admission(who, at, how) == [who |-> who, at |-> at, how |-> how]

\* the callers that left the queue, in the order they stood in it
Released(before, after) ==
    Keep(before, {before[k] : k \in 1..Len(before)}
                    \ {after[k] : k \in 1..Len(after)})

RECURSIVE AdmitAll(_, _, _)
AdmitAll(log, who, t) ==
    IF who = <<>> THEN log
    ELSE AdmitAll(Append(log, Admission(Head(who), t, "queue")), Tail(who), t)

InSeq(q, x) == \E k \in 1..Len(q) : q[k] = x

InitRl ==
    /\ rlCap \in 1..MaxRlCapacity
    /\ rl = [tokens |-> rlCap * OneToken, lastRefill |-> 0, queue |-> <<>>]
    /\ rlNow = 0
    /\ rlTimers = [c \in Rlers |-> NoTimer]
    /\ rc = [c \in Rlers |-> "idle"]
    /\ rlLog = <<>>
    /\ rlArrived = <<>>
    /\ rlRet = 0
    /\ rlRun = "burst"

RlAtRest ==
    /\ rlCap = 1
    /\ rl = [tokens |-> OneToken, lastRefill |-> 0, queue |-> <<>>]
    /\ rlNow = 0
    /\ rlTimers = [c \in Rlers |-> NoTimer]
    /\ rc = [c \in Rlers |-> "idle"]
    /\ rlLog = <<>>
    /\ rlArrived = <<>>
    /\ rlRet = 0
    /\ rlRun = "mixed"

\* acquire(), up to the return of the resolved or of the pending promise
RlAcquire(c) ==
    /\ rc[c] = "idle"
    /\ RlCallInstant(rlNow)
    /\ LET l == RefillWith(rlCap, rl, rlNow)
       IN  IF l.tokens >= OneToken
           THEN /\ rl' = [l EXCEPT !.tokens = l.tokens - OneToken]
                /\ rc' = [rc EXCEPT ![c] = "admitted"]
                /\ rlLog' = Append(rlLog, Admission(c, rlNow, "immediate"))
                /\ UNCHANGED rlTimers
           ELSE /\ rl' = [l EXCEPT !.queue = Append(l.queue, c)]
                /\ rc' = [rc EXCEPT ![c] = "waiting"]
                /\ rlTimers' = [rlTimers EXCEPT ![c] = rlNow + PollMs]
                /\ UNCHANGED rlLog
    /\ rlArrived' = Append(rlArrived, c)
    /\ rlRun' = IF rlNow = 0 \/ rlRun = "reset" THEN rlRun ELSE "mixed"
    /\ UNCHANGED <<rlCap, rlNow, rlRet>>
    /\ UNCHANGED <<orchVars, regVars, kvVars, svVars, uiVars>>

\* the setInterval callback of caller c
RlPoll(c) ==
    /\ rlTimers[c] = rlNow
    /\ LET l == ProcessQueue(RefillWith(rlCap, rl, rlNow))
           out == Released(rl.queue, l.queue)
       IN  /\ rl' = l
           /\ rc' = [d \in Rlers |-> IF InSeq(out, d) THEN "admitted" ELSE rc[d]]
           /\ rlLog' = AdmitAll(rlLog, out, rlNow)
           /\ rlTimers' = [rlTimers EXCEPT ![c] =
                              IF InQueue(l, c) THEN rlNow + PollMs ELSE NoTimer]
    /\ UNCHANGED <<rlCap, rlNow, rlArrived, rlRet, rlRun>>
    /\ UNCHANGED <<orchVars, regVars, kvVars, svVars, uiVars>>

\* availableTokens(): Math.floor(this.tokens) after a refill
RlAvailableTokens ==
    /\ RlCallInstant(rlNow)
    /\ rl' = RefillWith(rlCap, rl, rlNow)
    /\ rlRet' = RefillWith(rlCap, rl, rlNow).tokens \div OneToken
    /\ rlRun' = IF rlRun = "reset" THEN rlRun ELSE "mixed"
    /\ UNCHANGED <<rlCap, rlNow, rlTimers, rc, rlLog, rlArrived>>
    /\ UNCHANGED <<orchVars, regVars, kvVars, svVars, uiVars>>

\* reset(): the queue is replaced by an empty one; the promises of the
\* callers in it stay pending and their intervals keep running
RlReset ==
    /\ RlCallInstant(rlNow)
    /\ rl' = [tokens |-> rlCap * OneToken, lastRefill |-> rlNow,
              queue |-> <<>>]
    /\ rlRun' = "reset"
    /\ UNCHANGED <<rlCap, rlNow, rlTimers, rc, rlLog, rlArrived, rlRet>>
    /\ UNCHANGED <<orchVars, regVars, kvVars, svVars, uiVars>>

\* time passes, up to the next interval that comes due or the next instant
\* at which calls are made
RlTick ==
    /\ rlNow < RlHorizon
    /\ \A c \in Rlers : rlTimers[c] # rlNow
    /\ rlNow' = SetMin({rlTimers[c] : c \in {d \in Rlers : rlTimers[d] # NoTimer}}
                       \cup {t \in {rlNow + HalfMinute - (rlNow % HalfMinute)} :
                                 t <= RlLastCall}
                       \cup {RlHorizon})
    /\ UNCHANGED <<rl, rlCap, rlTimers, rc, rlLog, rlArrived, rlRet, rlRun>>
    /\ UNCHANGED <<orchVars, regVars, kvVars, svVars, uiVars>>

NextLimiter ==
    \/ \E c \in Rlers : RlAcquire(c)
    \/ \E c \in Rlers : RlPoll(c)
    \/ RlAvailableTokens
    \/ RlReset
    \/ RlTick

-----------------------------------------------------------------------------
(***************************************************************************)
(* The update classifier: getUpdateType over sanitizeVersion and the       *)
(* semver package (coerce, valid, gte, parse).  Strings are sequences of   *)
(* characters.                                                             *)
(***************************************************************************)
DigitChars == <<"0", "1", "2", "3", "4", "5", "6", "7", "8", "9">>

IsDigit(ch) == \E d \in 1..Len(DigitChars) : DigitChars[d] = ch
DigitVal(ch) == (CHOOSE d \in 1..Len(DigitChars) : DigitChars[d] = ch) - 1

\* a number in decimal
RECURSIVE NumStr(_)
NumStr(n) ==
    IF n < Len(DigitChars) THEN <<DigitChars[n + 1]>>
    ELSE NumStr(n \div Len(DigitChars))
             \o <<DigitChars[(n % Len(DigitChars)) + 1]>>

\* SemVer.version: major.minor.patch
VersionStr(major, minor, patch) ==
    NumStr(major) \o <<".">> \o NumStr(minor) \o <<".">> \o NumStr(patch)

\* ---- the arguments: what the caller means, and the string it passes ----
SvVersion(prefix, nums, pre) ==
    [text |-> prefix \o VersionStr(nums[1], nums[2], nums[3]) \o pre,
     isVersion |-> TRUE, nums |-> nums, pre |-> pre # <<>>]

SvWord(text) ==
    [text |-> text, isVersion |-> FALSE, nums |-> <<0, 0, 0>>, pre |-> FALSE]

Latest == <<"l", "a", "t", "e", "s", "t">>
NextTag == <<"n", "e", "x", "t">>
Alpha1 == <<"-", "a", "l", "p", "h", "a", ".", "1">>

SvNums == (0..MaxVer) \cup {10}

\* 1.0.0, ^1.0.0, 2.0.0-alpha.1, ^10.2.0-alpha.1, ... and latest, next,
\* the empty string, abc
SvInputs ==
    {SvVersion(prefix, <<a, b, c>>, pre) :
        prefix \in {<<>>, <<"^">>}, a \in SvNums, b \in SvNums, c \in SvNums,
        pre \in {<<>>, Alpha1}}
    \cup {SvWord(w) : w \in {Latest, NextTag, <<>>, <<"a", "b", "c">>}}

\* ---- the semver package ----
\* the longest run of digits at the head of s, as a number
RECURSIVE TakeNumFrom(_, _, _)
TakeNumFrom(s, n, len) ==
    IF s # <<>> /\ IsDigit(Head(s))
    THEN TakeNumFrom(Tail(s), n * Len(DigitChars) + DigitVal(Head(s)), len + 1)
    ELSE [ok |-> len > 0, n |-> n, len |-> len, rest |-> s]

TakeNum(s) == TakeNumFrom(s, 0, 0)

\* a "." and a number at the head of s
TakeDotNum(s) ==
    IF s # <<>> /\ Head(s) = "."
    THEN TakeNum(Tail(s))
    ELSE [ok |-> FALSE, n |-> 0, len |-> 0, rest |-> s]

NoVersion == [ok |-> FALSE, major |-> 0, minor |-> 0, patch |-> 0, pre |-> FALSE]

\* semver.coerce on a string that is empty or starts with a digit: the
\* first one to three numbers, the missing ones 0, whatever follows dropped
Coerce(s) ==
    LET a == TakeNum(s)
        b == TakeDotNum(a.rest)
        c == TakeDotNum(b.rest)
    IN  IF ~a.ok THEN NoVersion
        ELSE [ok |-> TRUE, major |-> a.n,
              minor |-> IF b.ok THEN b.n ELSE 0,
              patch |-> IF b.ok /\ c.ok THEN c.n ELSE 0,
              pre |-> FALSE]

\* a numeric identifier has no leading zero
Numeric(t) == t.ok /\ (t.len = 1 \/ t.n >= Len(DigitChars) ^ (t.len - 1))

\* semver.parse / semver.valid: major.minor.patch and nothing else, or a
\* "-" and a pre-release tag after it
SemverParse(s) ==
    LET a == TakeNum(s)
        b == TakeDotNum(a.rest)
        c == TakeDotNum(b.rest)
    IN  IF /\ Numeric(a) /\ Numeric(b) /\ Numeric(c)
           /\ \/ c.rest = <<>>
              \/ Len(c.rest) > 1 /\ Head(c.rest) = "-"
        THEN [ok |-> TRUE, major |-> a.n, minor |-> b.n, patch |-> c.n,
              pre |-> c.rest # <<>>]
        ELSE NoVersion

\* semver.gte: the numbers from the left; a pre-release is below its release
SemverGte(x, y) ==
    IF x.major # y.major THEN x.major > y.major
    ELSE IF x.minor # y.minor THEN x.minor > y.minor
    ELSE IF x.patch # y.patch THEN x.patch > y.patch
    ELSE ~x.pre \/ y.pre

\* ---- semverHelper.ts ----
\* replace(/^[^0-9]*/, '')
RECURSIVE DropNonDigits(_)
DropNonDigits(s) ==
    IF s # <<>> /\ ~IsDigit(Head(s)) THEN DropNonDigits(Tail(s)) ELSE s

SanitizeVersion(version) ==
    LET sanitized == Trim(version)
        coerced == Coerce(DropNonDigits(sanitized))
    IN  IF sanitized \in {Latest, NextTag, <<>>} THEN Latest
        ELSE IF coerced.ok
             THEN VersionStr(coerced.major, coerced.minor, coerced.patch)
             ELSE sanitized

\* the three tests taken from the right
GetUpdateType_PatchFirst(currentVersion, latestVersion) ==
    LET current == SemverParse(SanitizeVersion(currentVersion))
        latest == SemverParse(SanitizeVersion(latestVersion))
    IN  IF ~current.ok \/ ~latest.ok THEN "null"
        ELSE IF SemverGte(current, latest) THEN "null"
        ELSE IF current.patch < latest.patch THEN "patch"
        ELSE IF current.minor < latest.minor THEN "minor"
        ELSE IF current.major < latest.major THEN "major"
        ELSE "null"

GetUpdateType(currentVersion, latestVersion) ==
    LET current == SemverParse(SanitizeVersion(currentVersion))
        latest == SemverParse(SanitizeVersion(latestVersion))
    IN  IF ~current.ok \/ ~latest.ok THEN "null"
        ELSE IF SemverGte(current, latest) THEN "null"
        ELSE IF current.major < latest.major THEN "major"
        ELSE IF current.minor < latest.minor THEN "minor"
        ELSE IF current.patch < latest.patch THEN "patch"
        ELSE "null"

InitSv ==
    /\ svCur \in SvInputs
    /\ svLat \in SvInputs
    /\ svRet = "pending"

SvAtRest ==
    /\ svCur = SvWord(<<>>)
    /\ svLat = SvWord(<<>>)
    /\ svRet = "pending"

Classify ==
    /\ svRet = "pending"
    /\ svRet' = GetUpdateType(svCur.text, svLat.text)
    /\ UNCHANGED <<svCur, svLat>>
    /\ UNCHANGED <<orchVars, regVars, kvVars, rlVars, uiVars>>

NextSemver == Classify

-----------------------------------------------------------------------------
(***************************************************************************)
(* The extension's event handlers (activate in src/src/extension.ts) on    *)
(* one open package.json.  An analysis reads the document text when it is  *)
(* started and publishes when its analyzers have settled.  The segment     *)
(* after "await analyzeIfPackage(...)" in the configuration listener is a  *)
(* microtask: it runs before any other event is handled.                   *)
(***************************************************************************)
Run(src, text, done) == [src |-> src, text |-> text, done |-> done]

NoDiagnostics == [run |-> 0, text |-> 0, what |-> "none"]
Published(k, text, what) == [run |-> k, text |-> text, what |-> what]

\* a document: its languageId is json or not, its file name ends with
\* package.json or not
Docs == [json : BOOLEAN, named : BOOLEAN]
NoEditor == [json |-> FALSE, named |-> FALSE, none |-> TRUE]

IsPackage(doc) == doc.json /\ doc.named

\* analyzeIfPackage(doc): analyzePackageDocument up to its first await.  A
\* text that fails to parse or validate is answered at once with the error
\* finding; otherwise the analyzers are started on the text as it is now.
AnalyzeIfPackage(doc, src) ==
    IF IsPackage(doc)
    THEN /\ exRuns' = Append(exRuns, Run(src, exText.ver, ~exText.valid))
         /\ exPublished' = IF exText.valid THEN exPublished
                           ELSE Published(Len(exRuns) + 1, exText.ver, "error")
    ELSE UNCHANGED <<exRuns, exPublished>>

InitExt ==
    /\ exText = [ver |-> 0, valid |-> TRUE]
    \* activate analyses the active editor's document if there is one
    /\ exRuns \in {<<>>, <<Run("activate", 0, FALSE)>>}
    /\ exPublished = NoDiagnostics
    /\ exReanalyzing = FALSE
    /\ exCfgPc = "idle"
    /\ exBurst = 0

ExAtRest ==
    /\ exText = [ver |-> 0, valid |-> TRUE]
    /\ exRuns = <<>>
    /\ exPublished = NoDiagnostics
    /\ exReanalyzing = FALSE
    /\ exCfgPc = "idle"
    /\ exBurst = 0

\* onDidOpenTextDocument, onDidSaveTextDocument, the pkgsense.analyze command
ExEvent(doc, src) ==
    /\ exCfgPc = "idle"
    /\ src \in {"open", "save", "command"}
    /\ Len(exRuns) < MaxRuns
    /\ AnalyzeIfPackage(doc, src)
    /\ UNCHANGED <<exText, exReanalyzing, exCfgPc, exBurst>>
    /\ UNCHANGED <<orchVars, regVars, kvVars, rlVars, svVars, ntVars>>

\* onDidChangeTextDocument: the text of the document has changed
ExChange(doc, valid) ==
    /\ exCfgPc = "idle"
    /\ Len(exRuns) < MaxRuns
    /\ exText.ver < MaxEdits
    /\ IF IsPackage(doc)
       THEN /\ exText' = [ver |-> exText.ver + 1, valid |-> valid]
            /\ exRuns' = Append(exRuns, Run("change", exText'.ver, ~valid))
            /\ exPublished' =
                   IF valid THEN exPublished
                   ELSE Published(Len(exRuns) + 1, exText'.ver, "error")
            /\ exBurst' = exBurst + 1
       ELSE UNCHANGED <<exText, exRuns, exPublished, exBurst>>
    /\ UNCHANGED <<exReanalyzing, exCfgPc>>
    /\ UNCHANGED <<orchVars, regVars, kvVars, rlVars, svVars, ntVars>>

\* no change event for a while: a burst of changes is over
ExPause ==
    /\ exCfgPc = "idle"
    /\ exBurst > 0
    /\ exBurst' = 0
    /\ UNCHANGED <<exText, exRuns, exPublished, exReanalyzing, exCfgPc>>
    /\ UNCHANGED <<orchVars, regVars, kvVars, rlVars, svVars, ntVars>>

\* onDidChangeConfiguration, up to its await or its return
ExConfigChange(affects, globalEnabled, editor) ==
    /\ exCfgPc = "idle"
    /\ Len(exRuns) < MaxRuns
    /\ IF ~affects \/ exReanalyzing
       THEN UNCHANGED <<exRuns, exPublished, exReanalyzing, exCfgPc>>
       ELSE IF ~globalEnabled
       THEN \* diagnostics.clear(); finally
            /\ exPublished' = NoDiagnostics
            /\ exReanalyzing' = FALSE
            /\ UNCHANGED <<exRuns, exCfgPc>>
       ELSE IF editor # NoEditor
       THEN /\ AnalyzeIfPackage(editor, "config")
            /\ exReanalyzing' = TRUE
            /\ exCfgPc' = "awaiting"
       ELSE \* finally
            /\ exReanalyzing' = FALSE
            /\ UNCHANGED <<exRuns, exPublished, exCfgPc>>
    /\ UNCHANGED <<exText, exBurst>>
    /\ UNCHANGED <<orchVars, regVars, kvVars, rlVars, svVars, ntVars>>

\* analyzeIfPackage has returned undefined: the await is over in the next
\* microtask, and finally resets the flag
ExConfigResume ==
    /\ exCfgPc = "awaiting"
    /\ exReanalyzing' = FALSE
    /\ exCfgPc' = "idle"
    /\ UNCHANGED <<exText, exRuns, exPublished, exBurst>>
    /\ UNCHANGED <<orchVars, regVars, kvVars, rlVars, svVars, ntVars>>

\* the analyzers of analysis k have settled: analyzeDocument publishes
ExFinish(k) ==
    /\ exCfgPc = "idle"
    /\ k \in 1..Len(exRuns)
    /\ ~exRuns[k].done
    /\ exRuns' = [exRuns EXCEPT ![k].done = TRUE]
    /\ exPublished' = Published(k, exRuns[k].text, "findings")
    /\ UNCHANGED <<exText, exReanalyzing, exCfgPc, exBurst>>
    /\ UNCHANGED <<orchVars, regVars, kvVars, rlVars, svVars, ntVars>>

NextExt ==
    \/ \E doc \in Docs, src \in {"open", "save", "command"} : ExEvent(doc, src)
    \/ \E doc \in Docs, valid \in BOOLEAN : ExChange(doc, valid)
    \/ ExPause
    \/ \E affects \in BOOLEAN, globalEnabled \in BOOLEAN,
          editor \in Docs \cup {NoEditor} :
            ExConfigChange(affects, globalEnabled, editor)
    \/ ExConfigResume
    \/ \E k \in 1..MaxRuns : ExFinish(k)

-----------------------------------------------------------------------------
(***************************************************************************)
(* NotificationManager (src/src/decorators/notifications.ts).              *)
(***************************************************************************)
NtFinding(type, security, dependency, message) ==
    [type |-> type, security |-> security, dependency |-> dependency,
     message |-> message]

\* no dependency, "a", "a:b", "d"
NtDependencies == {<<>>, <<"a">>, <<"a", ":", "b">>, <<"d">>}
\* "c", "b:c"
NtMessages == {<<"c">>, <<"b", ":", "c">>}

NtFindings ==
    {NtFinding(type, security, dependency, message) :
        type \in {"error", "warning"}, security \in BOOLEAN,
        dependency \in NtDependencies, message \in NtMessages}

\* a vulnerability: a dependency and a message
Vulnerability(f) == <<f.dependency, f.message>>
Vulnerabilities == {Vulnerability(f) : f \in NtFindings}

\* filterCriticalVulnerabilities
IsCritical(f) == f.type = "error" /\ f.security /\ f.dependency # <<>>

\* `${finding.dependency}:${finding.message}`
NtKey(f) == f.dependency \o <<":">> \o f.message

\* showVulnerabilityNotification on state st = [notified, shown]
ShowVulnerabilityNotification(st, f) ==
    IF f.dependency = <<>> THEN st
    ELSE IF NtKey(f) \in st.notified THEN st
    ELSE [notified |-> st.notified \cup {NtKey(f)},
          shown |-> [st.shown EXCEPT ![Vulnerability(f)] = @ + 1]]

\* the loop of notifyFindings
RECURSIVE NotifyEach(_, _)
NotifyEach(st, fs) ==
    IF fs = <<>> THEN st
    ELSE NotifyEach(ShowVulnerabilityNotification(st, Head(fs)), Tail(fs))

NotifyFindings(st, fs) == NotifyEach(st, SelectSeq(fs, IsCritical))

InitNt ==
    /\ ntNotified = {}
    /\ ntShown = [v \in Vulnerabilities |-> 0]
    /\ ntOffered = {}
    /\ ntClears = 0

NtAtRest == InitNt

NtNotify(fs) ==
    /\ LET st == NotifyFindings([notified |-> ntNotified, shown |-> ntShown], fs)
       IN  /\ ntNotified' = st.notified
           /\ ntShown' = st.shown
    /\ ntOffered' = ntOffered \cup
           {Vulnerability(fs[k]) : k \in {j \in 1..Len(fs) : IsCritical(fs[j])}}
    /\ UNCHANGED ntClears
    /\ UNCHANGED <<orchVars, regVars, kvVars, rlVars, svVars, exVars>>

\* clearNotificationHistory
NtClear ==
    /\ ntClears < MaxNtClears
    /\ ntNotified' = {}
    /\ ntShown' = [v \in Vulnerabilities |-> 0]
    /\ ntOffered' = {}
    /\ ntClears' = ntClears + 1
    /\ UNCHANGED <<orchVars, regVars, kvVars, rlVars, svVars, exVars>>

NextNt ==
    \/ \E fs \in SeqsUpTo(NtFindings, MaxBatch) : NtNotify(fs)
    \/ NtClear

UiAtRest == ExAtRest /\ NtAtRest

LibAtRest == KvAtRest /\ RlAtRest /\ SvAtRest /\ UiAtRest

RegAtRest ==
    /\ now = 0
    /\ advances = 0
    /\ cache = <<>>
    /\ lim = [tokens |-> Capacity, lastRefill |-> 0, queue |-> <<>>]
    /\ timers = [c \in Calls |-> NoTimer]
    /\ call = [c \in Calls |-> IdleCall]
    /\ slots = {}
    /\ traced = {}

-----------------------------------------------------------------------------
\* the orchestrator with the registry client at rest, and the reverse
OrchAtRest ==
    /\ nAnalyzers = 0
    /\ docKind = "valid"
    /\ adPc = "idle"
    /\ adResult = "none"
    /\ runPc = "idle"
    /\ started = [i \in AnalyzerIds |-> 0]
    /\ astate = [i \in AnalyzerIds |-> "notStarted"]
    /\ outcome = [i \in AnalyzerIds |-> NoOutcome]
    /\ findings = <<>>
    /\ diagnostics = <<>>
    /\ lastFirst = TRUE

InitOrchSpec == InitOrch /\ InitReg /\ LibAtRest

InitRegSpec == OrchAtRest /\ InitReg /\ LibAtRest

\* one caller, its attempts recorded; the bucket is full, or earlier
\* callers have emptied it
InitRetrySpec ==
    /\ OrchAtRest
    /\ now = 0
    /\ advances = 0
    /\ cache = <<>>
    /\ \E spent \in 0..RequestsPerMinute :
          lim = [tokens |-> Capacity - spent * OneToken, lastRefill |-> 0,
                 queue |-> <<>>]
    /\ timers = [c \in Calls |-> NoTimer]
    /\ call = [c \in Calls |-> IdleCall]
    /\ slots = {"c1"}
    /\ traced = {"c1"}
    /\ LibAtRest

InitCacheSpec ==
    OrchAtRest /\ RegAtRest /\ InitKv /\ RlAtRest /\ SvAtRest /\ UiAtRest

InitLimiterSpec ==
    OrchAtRest /\ RegAtRest /\ KvAtRest /\ InitRl /\ SvAtRest /\ UiAtRest

InitSemverSpec ==
    OrchAtRest /\ RegAtRest /\ KvAtRest /\ RlAtRest /\ InitSv /\ UiAtRest

LibsAtRest == KvAtRest /\ RlAtRest /\ SvAtRest

InitExtSpec == OrchAtRest /\ RegAtRest /\ LibsAtRest /\ InitExt /\ NtAtRest

InitNtSpec == OrchAtRest /\ RegAtRest /\ LibsAtRest /\ ExAtRest /\ InitNt

SpecOrch == InitOrchSpec /\ [][NextOrch]_vars

SpecReg == InitRegSpec /\ [][NextReg]_vars

SpecRetry == InitRetrySpec /\ [][NextReg]_vars

SpecCache == InitCacheSpec /\ [][NextCache]_vars

SpecLimiter == InitLimiterSpec /\ [][NextLimiter]_vars

SpecSemver == InitSemverSpec /\ [][NextSemver]_vars

SpecExt == InitExtSpec /\ [][NextExt]_vars

SpecNt == InitNtSpec /\ [][NextNt]_vars

-----------------------------------------------------------------------------
(***************************************************************************)
(* Properties of the orchestrator (SpecOrch).                              *)
(***************************************************************************)
Succeeded(i) == outcome[i].status = "fulfilled" /\ outcome[i].success

\* the findings an analyzer handed over: its list if it succeeded, nothing
\* if it failed or threw
OwnFindings(i) == IF Succeeded(i) THEN outcome[i].data ELSE <<>>

(* C1: partial-failure isolation.  When runAnalyzers returns, the list it  *)
(* returns holds every finding of every analyzer that succeeded, as often  *)
(* as those analyzers produced it, and nothing of an analyzer that failed  *)
(* or rejected; its length never exceeds the sum of the analyzers' counts. *)
C1_PartialFailureIsolation ==
    runPc = "returned" =>
        /\ \A f \in FindingIds :
              CountIn(findings, f) =
                  SumOver([i \in Registered |-> CountIn(OwnFindings(i), f)],
                          Registered)
        /\ Len(findings) <=
              SumOver([i \in Registered |->
                          IF outcome[i].status = "fulfilled"
                          THEN Len(outcome[i].data) ELSE 0], Registered)

C1_Witness ==
    /\ runPc = "returned"
    /\ \E i, j, k \in Registered :
          /\ outcome[i] = Fulfilled(FALSE, <<>>)
          /\ outcome[j] = Rejected
          /\ Succeeded(k) /\ Len(outcome[k].data) = MaxFindings
    /\ Len(findings) = MaxFindings

(* C2: run never fails as a whole.  runAnalyzers never ends in a           *)
(* rejection, and analyzeDocument on a valid manifest ends with a success  *)
(* result, whatever the analyzers do, an analyzer that throws when it is   *)
(* invoked included.                                                       *)
C2_RunNeverFails ==
    /\ runPc # "rejected"
    /\ (adPc = "done" /\ docKind = "valid") => adResult = "success"

(* C3: the join waits for all.  When runAnalyzers has ended, every         *)
(* registered analyzer was started exactly once and has settled.           *)
C3_WaitForAll ==
    runPc \in {"returned", "rejected"} =>
        \A i \in Registered : started[i] = 1 /\ astate[i] = "settled"

-----------------------------------------------------------------------------
(***************************************************************************)
(* Properties of the registry client (SpecReg, SpecRetry).                 *)
(***************************************************************************)
Transient == {"AbortError", "Error", "429", "http"}

Failures == {"invalid", "notFound", "malformed", "http", "timeout",
             "network", "unknown", "exhausted"}

Last(h) == h[Len(h)]

(* C4: the retry budget.  A call issues at most MAX_RETRIES (3) network    *)
(* attempts; every attempt before the last one ended in a transient        *)
(* failure (timeout, network error, 429, other non-success status); a call *)
(* that ended after a transient failure made all 3 attempts and returns a  *)
(* failure; two timeouts followed by a valid response give success with    *)
(* exactly three attempts, and three 429 responses give a failure.         *)
C4_RetryBudget ==
    \A c \in traced :
        LET h == call[c].hist
        IN  /\ call[c].nFetch <= MAX_RETRIES
            /\ Len(h) <= call[c].nFetch
            /\ \A k \in 1..(Len(h) - 1) : h[k] \in Transient
            /\ (call[c].pc \in {"fetching", "sleeping"} /\ h # <<>>)
                   => Last(h) \in Transient
            /\ (call[c].pc = "done" /\ h # <<>>) =>
                  /\ call[c].nFetch = Len(h)
                  /\ Last(h) \in Transient =>
                        (Len(h) = MAX_RETRIES /\ call[c].result \in Failures)
                  /\ Last(h) = "ok" => call[c].result = "success"
                  /\ h = <<"AbortError", "AbortError", "ok">> =>
                        (call[c].result = "success" /\ call[c].nFetch = 3)
                  /\ h = <<"429", "429", "429">> =>
                        call[c].result \in Failures

C4_Witness ==
    \E c \in traced :
        /\ call[c].pc = "done"
        /\ call[c].hist = <<"AbortError", "AbortError", "ok">>
        /\ call[c].result = "success"
        /\ call[c].nFetch = 3

(* C5: a 404 response ends the call at once: it is the last attempt of the *)
(* call, the call returns the not-found failure without sleeping, and no   *)
(* further attempt is issued.                                              *)
C5_NotFoundIsFinal ==
    \A c \in traced :
        LET h == call[c].hist
        IN  \A k \in 1..Len(h) :
                h[k] = "404" =>
                    /\ k = Len(h)
                    /\ call[c].pc = "done"
                    /\ call[c].result = "notFound"
                    /\ call[c].nFetch = k

C5_Witness ==
    \E c \in traced :
        /\ call[c].hist = <<"404">>
        /\ call[c].pc = "done"
        /\ call[c].nFetch = 1

\* the cache holds an unexpired, shape-valid entry under the key
LiveEntry(m, key, t) ==
    \E k \in 1..Len(m) :
        /\ m[k].key = key
        /\ t <= m[k].expiry
        /\ m[k].value.t = "object"
        /\ m[k].value.name /\ m[k].value.versions /\ m[k].value.distTags

StringArg(v) == v.t = "string"

\* empty, whitespace only, or not a string
InvalidArg(v) ==
    \/ ~StringArg(v)
    \/ \A k \in 1..Len(v.s) : v.s[k] = " "

(* C6: a call made while the cache holds an unexpired, shape-valid entry   *)
(* under metadata:{name} returns success in the same step, without a       *)
(* permit and without a network attempt: the limiter (tokens, lastRefill,  *)
(* queue), the polling timers and the cache are as they were.              *)
C6_CacheHitBypass ==
    [][\A c \in Calls :
          ( /\ call[c].pc = "idle"
            /\ call'[c].pc # "idle"
            /\ ~InvalidArg(call'[c].arg)
            /\ LiveEntry(cache, CacheKey(Trim(call'[c].arg.s)), now) )
          => /\ call'[c].pc = "done"
             /\ call'[c].result = "success"
             /\ call'[c].nFetch = 0
             /\ call'[c].permits = 0
             /\ lim' = lim
             /\ timers' = timers
             /\ cache' = cache]_vars

C6_Witness ==
    \E c \in Calls :
        /\ call[c].pc = "done"
        /\ call[c].lookup = "hit"
        /\ call[c].result = "success"
        /\ call[c].nFetch = 0
        /\ call[c].permits = 0

\* the keys stored, and what is stored under a key
KeysOf(m) == {m[k].key : k \in 1..Len(m)}
EntryOf(m, key) == m[CHOOSE k \in 1..Len(m) : m[k].key = key]

\* the step in which call c gets its response and returns
Returns(c) == call[c].pc = "fetching" /\ call'[c].pc = "done"

(* C7 as stated: a call that ended in a failure has left the cache as it   *)
(* was: it has neither stored nor removed an entry.                        *)
C7_CacheSameAfterFailure ==
    \A c \in Calls :
        (call[c].pc = "done" /\ call[c].result \in Failures)
            => (~call[c].stored /\ ~call[c].purged)

(* C7 as amended: the cache gains or changes an entry only in the step in  *)
(* which a call returns success on a shape-valid response, and then under  *)
(* that call's key; every step in which a call returns a failure leaves    *)
(* the cache untouched; the only other change is the lookup's removal of   *)
(* an entry that has expired, under the key looked up.                     *)
C7_OnlyValidatedIsCached ==
    [][/\ \A c \in Calls :
             (call'[c].pc = "done" /\ call[c].pc # "done"
                 /\ call'[c].result \in Failures) => cache' = cache
       /\ \A key \in KeysOf(cache') :
             (key \notin KeysOf(cache)
                 \/ EntryOf(cache', key) # EntryOf(cache, key))
             => \E c \in Calls :
                   /\ Returns(c)
                   /\ call'[c].result = "success"
                   /\ key = CacheKey(call[c].name)
                   /\ IsNpmPackageMetadata(EntryOf(cache', key).value)
       /\ \A key \in KeysOf(cache) \ KeysOf(cache') :
             \/ \E c \in Calls :
                   /\ call[c].pc = "idle" /\ call'[c].pc # "idle"
                   /\ key = CacheKey(call'[c].name)
                   /\ now > EntryOf(cache, key).expiry
             \/ \E c \in Calls : Returns(c) /\ call'[c].result = "success"
      ]_vars

C7_Witness ==
    \E c, d \in Calls :
        /\ call[c].pc = "done" /\ call[c].result = "malformed"
        /\ call[d].pc = "done" /\ call[d].purged
        /\ call[d].result \in Failures
        /\ cache = <<>>

(* C8: every outbound request is covered by a permit: the network attempts *)
(* issued so far never outnumber the permits taken from the limiter.       *)
C8_AttemptsCoveredByPermits ==
    SumOver([c \in Calls |-> call[c].nFetch], Calls)
        <= SumOver([c \in Calls |-> call[c].permits], Calls)

(* C9: no duplicate registry call within a TTL window: a request that ends *)
(* in a cached success is never made for a name whose entry is still in    *)
(* the cache and unexpired.                                                *)
C9_NoDuplicateFetch ==
    [][\A c \in Calls :
          (Returns(c) /\ call'[c].stored)
              => ~LiveEntry(cache, CacheKey(call[c].name), now)]_vars

(* C10: a call with an empty, whitespace-only or non-string name returns   *)
(* the invalid-name failure and has touched nothing: no cache lookup, no   *)
(* cache write or removal, no permit, no network attempt; the cache, the   *)
(* limiter and the timers are as they were.                                *)
C10_InvalidNameTouchesNothing ==
    [][\A c \in Calls :
          (call[c].pc = "idle" /\ call'[c].pc # "idle"
              /\ InvalidArg(call'[c].arg))
          => /\ call'[c].pc = "done"
             /\ call'[c].result = "invalid"
             /\ call'[c].lookup = "none"
             /\ call'[c].nFetch = 0
             /\ call'[c].permits = 0
             /\ ~call'[c].stored /\ ~call'[c].purged
             /\ cache' = cache
             /\ lim' = lim
             /\ timers' = timers]_vars

C10_Witness ==
    /\ \E c \in Calls :
          /\ call[c].pc = "done"
          /\ call[c].arg = Str(<<" ">>)
          /\ call[c].result = "invalid"
    /\ \E c \in Calls :
          /\ call[c].pc = "done"
          /\ call[c].arg = Other(TRUE)
          /\ call[c].result = "invalid"

-----------------------------------------------------------------------------
(***************************************************************************)
(* Properties of a Cache instance (SpecCache).                             *)
(***************************************************************************)
\* the last call was a lookup of a key that was set and has not been
\* deleted, cleared, overwritten or evicted since
LookedUpSet ==
    /\ kvRet.op \in {"get", "has"}
    /\ kvBorn[kvRet.key] # NeverSet

\* the lookup gave the value that was set (get) or true (has)
GaveValue ==
    /\ kvRet.found
    /\ kvRet.op = "get" => kvRet.value = kvBorn[kvRet.key].value

(* C11 as stated: a lookup of a key set at time s gives the value (true)   *)
(* at time s, and gives absent (false) at every time now with              *)
(* now - s >= ttl, the instant s + ttl included.                           *)
C11_AbsentFromTtlOn ==
    LookedUpSet =>
        LET s == kvBorn[kvRet.key].at
        IN  /\ kvNow = s => GaveValue
            /\ kvNow - s >= kvOpts.ttl => ~kvRet.found

(* C11 as amended: a lookup of a key set at time s gives the value (true)  *)
(* at every time up to and including s + ttl, and absent (false) at every  *)
(* later time: no lookup returns an entry past its expiry s + ttl.         *)
C11_AbsentPastExpiry ==
    LookedUpSet =>
        LET s == kvBorn[kvRet.key].at
        IN  /\ kvNow - s <= kvOpts.ttl => GaveValue
            /\ kvNow - s > kvOpts.ttl =>
                   (~kvRet.found /\ kvRet.value = Undefined)

C11_Witness ==
    /\ LookedUpSet
    /\ kvRet.op = "get"
    /\ kvOpts.ttl = 2
    /\ kvNow = kvBorn[kvRet.key].at + kvOpts.ttl + 1
    /\ ~kvRet.found

\* the run of calls so far is: capacity + 1 distinct keys set, nothing else
FilledByOneMore == kvRun.ok /\ Len(kvRun.keys) = kvOpts.max + 1

-----------------------------------------------------------------------------
(***************************************************************************)
(* Properties of a RateLimiter instance (SpecLimiter).                     *)
(***************************************************************************)
\* the admissions from the i-th to the j-th lie in a window shorter than a
\* minute
WithinAMinute(i, j) == rlLog[j].at - rlLog[i].at < MsPerMinute

(* C14: the rolling-window bound.  As long as reset() has not been called, *)
(* any admissions that lie within a window shorter than 60000 ms are at    *)
(* most requestsPerMinute many.                                            *)
C14_RollingWindowBound ==
    rlRun # "reset" =>
        \A i \in 1..Len(rlLog) : \A j \in i..Len(rlLog) :
            WithinAMinute(i, j) => j - i + 1 <= rlCap

\* the callers a step admits
NewlyAdmitted == Len(rlLog') - Len(rlLog)

(* C15: the permit ledger.  tokens stays within 0..capacity; a step that   *)
(* admits k callers, at once or from the queue, leaves the refilled token  *)
(* count less exactly k whole permits; and, reset() apart, the permits     *)
(* consumed and those left never exceed the initial capacity plus what     *)
(* the refill has added since, so no permit admits two callers.            *)
C15_PermitLedger ==
    [][/\ 0 <= rl'.tokens /\ rl'.tokens <= rlCap * OneToken
       /\ NewlyAdmitted >= 0
       /\ NewlyAdmitted > 0 =>
             rl'.tokens = RefillWith(rlCap, rl, rlNow).tokens
                             - NewlyAdmitted * OneToken
       /\ \A k \in (Len(rlLog) + 1)..Len(rlLog') :
             /\ rc[rlLog'[k].who] # "admitted"
             /\ rc'[rlLog'[k].who] = "admitted"
       /\ rlRun' # "reset" =>
             Len(rlLog') * OneToken + rl'.tokens
                 <= rlCap * OneToken + rlNow' * rlCap
      ]_vars

C15_Witness ==
    /\ Len(rlLog) = Cardinality(Rlers)
    /\ \E k \in 1..Len(rlLog) : rlLog[k].how = "queue"
    /\ \E k \in 1..Len(rlLog) : rlLog[k].how = "immediate"
    /\ rlRun # "reset"
    /\ rl.tokens = 0

LogIndex(c) == CHOOSE k \in 1..Len(rlLog) : rlLog[k].who = c

(* C16: FIFO release.  Of two callers that stand in the queue, the one     *)
(* further back is never admitted in a step unless the one in front of it  *)
(* is admitted too, and then after it, whichever interval fired.           *)
C16_FifoRelease ==
    [][\A i \in 1..Len(rl.queue) : \A j \in (i + 1)..Len(rl.queue) :
          rc'[rl.queue[j]] = "admitted"
              => /\ rc'[rl.queue[i]] = "admitted"
                 /\ \E a \in 1..Len(rlLog') : \E b \in (a + 1)..Len(rlLog') :
                       /\ rlLog'[a].who = rl.queue[i]
                       /\ rlLog'[b].who = rl.queue[j]
      ]_vars

\* two callers waited together; the first to come was admitted first, on
\* the interval of the other one
C16_Witness ==
    /\ Len(rlLog) = 3
    /\ rlLog[2].how = "queue" /\ rlLog[3].how = "queue"
    /\ rlLog[2].at < rlLog[3].at
    /\ rlArrived = <<rlLog[1].who, rlLog[2].who, rlLog[3].who>>
    /\ rlRun # "reset"

(* C17: no caller waits for ever.  The callers are finitely many and call  *)
(* once, and the intervals fire when due: at the horizon, by which the     *)
(* refill has covered every one of them, no caller is still waiting.       *)
C17_NoCallerWaitsForEver ==
    (rlNow = RlHorizon /\ \A c \in Rlers : rlTimers[c] # rlNow)
        => \A c \in Rlers : rc[c] # "waiting"

\* requestsPerMinute + 1 calls of acquire() at the start, and none since
BurstRun == rlRun = "burst" /\ Len(rlArrived) = rlCap + 1

(* C18: cold start burst.  After requestsPerMinute + 1 calls of acquire()  *)
(* at the instant of construction, the first requestsPerMinute are         *)
(* admitted at once, never queued; the last one is queued and stays        *)
(* queued until it is admitted from the queue, by an interval callback at  *)
(* a later instant, not before one whole permit has refilled               *)
(* (60000 / requestsPerMinute ms) and no later than the tick after that.   *)
C18_ColdStartBurst ==
    BurstRun =>
        LET last == rlArrived[rlCap + 1]
            due == MsPerMinute \div rlCap
        IN  /\ Len(rlLog) >= rlCap
            /\ \A k \in 1..rlCap :
                  rlLog[k] = Admission(rlArrived[k], 0, "immediate")
            /\ IF Len(rlLog) = rlCap
               THEN /\ rc[last] = "waiting"
                    /\ InQueue(rl, last)
                    /\ rlNow <= due + PollMs
               ELSE /\ rlLog[rlCap + 1].who = last
                    /\ rlLog[rlCap + 1].how = "queue"
                    /\ rlLog[rlCap + 1].at > 0
                    /\ rlLog[rlCap + 1].at >= due
                    /\ rlLog[rlCap + 1].at <= due + PollMs
                    /\ rc[last] = "admitted"

C18_Witness ==
    /\ BurstRun
    /\ rlCap = MaxRlCapacity
    /\ Len(rlLog) = rlCap + 1
    /\ rlLog[rlCap + 1].how = "queue"

-----------------------------------------------------------------------------
(***************************************************************************)
(* Properties of the update classifier (SpecSemver).                       *)
(***************************************************************************)
\* <<major, minor, patch>> from the left
TripleLess(x, y) ==
    \/ x[1] < y[1]
    \/ x[1] = y[1] /\ x[2] < y[2]
    \/ x[1] = y[1] /\ x[2] = y[2] /\ x[3] < y[3]

\* semver precedence between two versions as the caller means them
StrictlyGreater(x, y) ==
    \/ TripleLess(y.nums, x.nums)
    \/ x.nums = y.nums /\ y.pre /\ ~x.pre

(* C19: getUpdateType returns null (no update) whenever the latest version *)
(* is no version at all, is a pre-release, or is not strictly greater than *)
(* the current version.                                                    *)
C19_NoneUnlessNewerRelease ==
    ( /\ svRet # "pending"
      /\ \/ ~svLat.isVersion
         \/ svLat.pre
         \/ svCur.isVersion /\ ~StrictlyGreater(svLat, svCur) )
    => svRet = "null"

(* C20: for a current and a latest version that are both plain releases,   *)
(* latest strictly greater, getUpdateType returns the first of major,      *)
(* minor, patch at which the two differ, whatever the components after it, *)
(* and never null.                                                         *)
C20_FirstDifferingComponent ==
    ( /\ svRet # "pending"
      /\ svCur.isVersion /\ ~svCur.pre
      /\ svLat.isVersion /\ ~svLat.pre
      /\ StrictlyGreater(svLat, svCur) )
    => svRet = IF svCur.nums[1] # svLat.nums[1] THEN "major"
               ELSE IF svCur.nums[2] # svLat.nums[2] THEN "minor"
               ELSE "patch"

\* 2.2.1 -> 10.0.0 is a major update
C20_Witness ==
    /\ svCur = SvVersion(<<>>, <<2, 2, 1>>, <<>>)
    /\ svLat = SvVersion(<<>>, <<10, 0, 0>>, <<>>)
    /\ svRet = "major"

-----------------------------------------------------------------------------
(***************************************************************************)
(* Further properties of the orchestrator (SpecOrch).                      *)
(***************************************************************************)
\* analyzeDocument on a text that does not parse, or parses to something
\* that is no manifest: a failure with its code, one error finding
\* published, no analyzer invoked
RejectedAtTheGate ==
    (adPc = "done" /\ docKind # "valid")
    => /\ adResult = IF docKind = "invalidJson" THEN "JSON_PARSE_ERROR"
                     ELSE "INVALID_PACKAGE_JSON"
       /\ diagnostics = <<ErrorFinding>>
       /\ \A i \in AnalyzerIds : started[i] = 0

(* C21: validation of the manifest is the only gate before the analyzers:  *)
(* an invalid document runs no analyzer, fails with JSON_PARSE_ERROR or    *)
(* INVALID_PACKAGE_JSON and publishes exactly one error finding; for a     *)
(* valid manifest every registered analyzer is run.                        *)
C21_ValidationIsTheOnlyGate ==
    /\ RejectedAtTheGate
    /\ (adPc # "idle" /\ docKind = "valid")
       => \A i \in Registered : started[i] = 1

-----------------------------------------------------------------------------
(***************************************************************************)
(* Properties of the extension's event handlers (SpecExt).                 *)
(***************************************************************************)
(* C22: analysis on file changes is debounced: the change events of one    *)
(* burst (no pause between them) start one analysis, not one each.         *)
C22_ChangesDebounced == exBurst <= 1

\* the analyses started by the configuration listener and not yet finished
ConfigRunsInFlight ==
    {k \in 1..Len(exRuns) : exRuns[k].src = "config" /\ ~exRuns[k].done}

(* C25: at most one analysis started by a configuration change is in       *)
(* flight at any time.                                                     *)
C25_OneReanalysisInFlight == Cardinality(ConfigRunsInFlight) <= 1

(* C30: once the overlapping analyses of the document have all finished,   *)
(* the diagnostics published are those of the analysis started last, made  *)
(* from the newest text.                                                   *)
C30_NewestAnalysisWins ==
    ( /\ exRuns # <<>>
      /\ \A k \in 1..Len(exRuns) : exRuns[k].done
      /\ exPublished # NoDiagnostics )
    => /\ exPublished.run = Len(exRuns)
       /\ exPublished.text = exText.ver

-----------------------------------------------------------------------------
(***************************************************************************)
(* Properties of the NotificationManager (SpecNt).  ntShown and ntOffered  *)
(* start afresh at clearNotificationHistory.                               *)
(***************************************************************************)
\* no vulnerability is notified twice between two clears
NotifiedAtMostOnce == \A v \in Vulnerabilities : ntShown[v] <= 1

\* as long as dependency and message hold no ":" of their own, every
\* critical vulnerability handed in has been notified
ColonFree(str) == \A k \in 1..Len(str) : str[k] # ":"

PlainNotified ==
    \A v \in ntOffered :
        (\A w \in ntOffered : ColonFree(w[1]) /\ ColonFree(w[2]))
        => ntShown[v] = 1

(* C23: between two clears of the history a critical vulnerability (a      *)
(* dependency and a message) is notified at most once, and every critical  *)
(* vulnerability handed to notifyFindings, differing from the others in    *)
(* dependency or message, has been notified exactly once.                  *)
C23_OncePerVulnerability ==
    /\ NotifiedAtMostOnce
    /\ \A v \in ntOffered : ntShown[v] = 1

-----------------------------------------------------------------------------
(***************************************************************************)
(* Eviction by least-recent use (SpecCache).                               *)
(***************************************************************************)
(* C24: a successful get(key) makes the key the most recently used one:    *)
(* when the next call is a set of a new key on an instance at capacity     *)
(* (of two entries or more), the entry evicted is not the one just read.   *)
C24_ReadKeepsFromEviction ==
    [][( /\ kvRet.op = "get" /\ kvRet.found
         /\ kvRet'.op = "set"
         /\ kvRet'.key \notin KvHeld(kv)
         /\ Len(kv) = kvOpts.max
         /\ kvOpts.max >= 2 )
       => kvRet.key \in KvHeld(kv')
      ]_vars

-----------------------------------------------------------------------------
(***************************************************************************)
(* The backoff of the registry client (SpecRetry).                         *)
(***************************************************************************)
\* the attempt of call c has just failed and the call goes to sleep
GoesToSleep(c) == call[c].pc = "fetching" /\ call'[c].pc = "sleeping"

\* the sleep is 1000 * 2^k ms after failed attempt k, 2000 * 2^k ms after a
\* rate-limited response
SleepsBySchedule(c) ==
    LET k == call[c].attempt
        last == call'[c].hist[Len(call'[c].hist)]
    IN  call'[c].due - now = (IF last = "429" THEN 2000 ELSE 1000) * 2 ^ k

(* C26: after failed attempt k (from 0) the client sleeps base * 2^k ms,   *)
(* base 1000, or 2000 after a rate-limited response, and it sleeps only    *)
(* when a further attempt follows: never after its last attempt.           *)
C26_BackoffSchedule ==
    [][\A c \in traced :
          GoesToSleep(c)
          => /\ SleepsBySchedule(c)
             /\ call[c].attempt + 1 < MAX_RETRIES
      ]_vars

\* the schedule alone
BackoffBySchedule ==
    [][\A c \in traced : GoesToSleep(c) => SleepsBySchedule(c)]_vars

\* never asleep after the last attempt, rate-limited responses apart
SleepsBeforeAnAttempt ==
    [][\A c \in traced :
          (GoesToSleep(c) /\ call'[c].hist[Len(call'[c].hist)] # "429")
          => call[c].attempt + 1 < MAX_RETRIES
      ]_vars

-----------------------------------------------------------------------------
(***************************************************************************)
(* The order of the merged list (SpecOrch).                                *)
(***************************************************************************)
\* where the findings of analyzer i start in the merged list: after those
\* of the analyzers registered before it
PlaceOf(i) ==
    SumOver([j \in Registered |-> IF j < i THEN Len(OwnFindings(j)) ELSE 0],
            Registered)

(* C27: the list runAnalyzers returns is the concatenation of the          *)
(* successful analyzers' lists in registration order, each list in its     *)
(* own order, whatever the order in which the analyzers settled.           *)
C27_MergedInRegistrationOrder ==
    runPc = "returned" =>
        /\ Len(findings) = PlaceOf(nAnalyzers + 1)
        /\ \A i \in Registered :
              \A k \in 1..Len(OwnFindings(i)) :
                  findings[PlaceOf(i) + k] = OwnFindings(i)[k]

\* the analyzers settled last to first; the first gave f2, f1 and the
\* last gave f1, f2
C27_Witness ==
    /\ runPc = "returned"
    /\ nAnalyzers = MaxAnalyzers
    /\ lastFirst
    /\ outcome[1] = Fulfilled(TRUE, <<"f2", "f1">>)
    /\ outcome[nAnalyzers] = Fulfilled(TRUE, <<"f1", "f2">>)
    /\ SubSeq(findings, 1, 2) = <<"f2", "f1">>

-----------------------------------------------------------------------------
(***************************************************************************)
(* Barging and reset() in the rate limiter (SpecLimiter).                  *)
(***************************************************************************)
\* the callers admitted so far, in the order of their admission
AdmittedInOrder == [k \in 1..Len(rlLog) |-> rlLog[k].who]

(* C28: no barging.  A call of acquire() is never admitted ahead of a      *)
(* caller that stands in the queue: the callers are admitted in the order  *)
(* in which they called, over the immediate path and the queue together.   *)
C28_AdmittedInArrivalOrder ==
    rlRun # "reset" => AdmittedInOrder = SubSeq(rlArrived, 1, Len(rlLog))

(* C29: reset() does not strand waiters.  In a run with a reset(), at the  *)
(* horizon, when permits have long been available, every caller of         *)
(* acquire() has been admitted and its interval has been cleared.          *)
C29_ResetKeepsWaiters ==
    (rlRun = "reset" /\ rlNow = RlHorizon /\ \A c \in Rlers : rlTimers[c] # rlNow)
        => \A c \in Rlers :
              InSeq(rlArrived, c) => rc[c] = "admitted" /\ rlTimers[c] = NoTimer

\* the intervals of the callers that reset() dropped are cleared
DroppedIntervalsCleared ==
    (rlRun = "reset" /\ rlNow = RlHorizon /\ \A c \in Rlers : rlTimers[c] # rlNow)
        => \A c \in Rlers : rlTimers[c] = NoTimer

=============================================================================
